---- MODULE Spec2Model ----
(***************************************************************************)
(* The quiz session engine of endless-translating-app.                     *)
(*                                                                         *)
(* Two variants of the App component are modelled over the same state:     *)
(*   Spec     the framed engine with the gsap frame transition             *)
(*            (src/unnamed/part_000, lines 1-499);                         *)
(*   SpecApp  the plain component of src/src/App.tsx (no transition).      *)
(*                                                                         *)
(* A text is a sequence of characters; a character is a one-element token  *)
(* (a string).  "TAB", "LF", "CR" stand for the control characters, "RSQ"  *)
(* for U+2019 (right single quotation mark) and "KANA" for any non-ASCII   *)
(* letter such as a Japanese character.                                    *)
(***************************************************************************)
EXTENDS Integers, Sequences, FiniteSets, TLC

(***************************************************************************)
(* Characters and the JavaScript string primitives the source uses.        *)
(***************************************************************************)
Null == [null |-> TRUE]

LowerLetters == {"a", "b", "c", "h", "i"}
UpperLetters == {"A", "B", "H"}
WhiteSpace == {" ", "TAB", "LF", "CR"}

\* String.prototype.toLowerCase, per character.
ToLowerChar(c) ==
  CASE c = "A" -> "a"
    [] c = "B" -> "b"
    [] c = "H" -> "h"
    [] OTHER -> c

toLowerCase(s) == [i \in 1..Len(s) |-> ToLowerChar(s[i])]

\* String.prototype.trim: drop leading and trailing white space.
RECURSIVE TrimStart(_)
TrimStart(s) ==
  IF s = <<>> THEN <<>>
  ELSE IF Head(s) \in WhiteSpace THEN TrimStart(Tail(s)) ELSE s

RECURSIVE TrimEnd(_)
TrimEnd(s) ==
  IF s = <<>> THEN <<>>
  ELSE IF s[Len(s)] \in WhiteSpace THEN TrimEnd(SubSeq(s, 1, Len(s) - 1)) ELSE s

trim(s) == TrimEnd(TrimStart(s))

\* s.replace(/[set]/g, ""): remove every character of the set.
RemoveChars(s, set) == SelectSeq(s, LAMBDA c : c \notin set)

\* s.split(sep) for a one-character separator: the pieces between the
\* separators, empty pieces included; "" splits into [""].
RECURSIVE SplitOn(_, _, _)
SplitOn(s, seps, cur) ==
  IF s = <<>> THEN <<cur>>
  ELSE IF Head(s) \in seps
       THEN <<cur>> \o SplitOn(Tail(s), seps, <<>>)
       ELSE SplitOn(Tail(s), seps, Append(cur, Head(s)))

\* s.split(/\s+/): a run of white space is one separator.
RECURSIVE SplitRuns(_, _, _)
SplitRuns(s, cur, inRun) ==
  IF s = <<>> THEN <<cur>>
  ELSE IF Head(s) \in WhiteSpace
       THEN IF inRun THEN SplitRuns(Tail(s), cur, TRUE)
            ELSE <<cur>> \o SplitRuns(Tail(s), <<>>, TRUE)
       ELSE SplitRuns(Tail(s), Append(cur, Head(s)), FALSE)

\* s.split(/\r?\n/): LF, or CR immediately followed by LF, separates lines.
RECURSIVE SplitLines(_, _)
SplitLines(s, cur) ==
  IF s = <<>> THEN <<cur>>
  ELSE IF Head(s) = "LF" THEN <<cur>> \o SplitLines(Tail(s), <<>>)
  ELSE IF Head(s) = "CR" /\ Len(s) >= 2 /\ s[2] = "LF"
       THEN <<cur>> \o SplitLines(Tail(Tail(s)), <<>>)
  ELSE SplitLines(Tail(s), Append(cur, Head(s)))

Range(s) == {s[i] : i \in 1..Len(s)}

(***************************************************************************)
(* CorpusStore: parseCorpus and randomPair.                                *)
(***************************************************************************)
\* Faulty variant: the fields are tested for emptiness before they are trimmed.
ParseLine_TestsBeforeTrim(line) ==
  IF trim(line) = <<>> THEN <<>>
  ELSE LET cols == SplitOn(line, {"TAB"}, <<>>)
       IN  IF Len(cols) >= 4 /\ cols[2] # <<>> /\ cols[4] # <<>>
           THEN <<[eng |-> trim(cols[2]), jpn |-> trim(cols[4])]>>
           ELSE <<>>

\* One line of the corpus: the pair it yields, or nothing.
ParseLine(line) ==
  IF trim(line) = <<>> THEN <<>>
  ELSE LET cols == SplitOn(line, {"TAB"}, <<>>)
       IN  IF Len(cols) >= 4
           THEN LET eng == trim(cols[2])
                    jpn == trim(cols[4])
                IN  IF eng # <<>> /\ jpn # <<>>
                    THEN <<[eng |-> eng, jpn |-> jpn]>>
                    ELSE <<>>
           ELSE <<>>

RECURSIVE ParseLines(_)
ParseLines(lines) ==
  IF lines = <<>> THEN <<>>
  ELSE ParseLine(Head(lines)) \o ParseLines(Tail(lines))

parseCorpus(tsv) == ParseLines(SplitLines(tsv, <<>>))

\* Math.random() is r / RandDenom for r in 0..RandDenom-1, a number in [0,1).
RandDenom == 4
Randoms == 0..(RandDenom - 1)

\* Math.floor(Math.random() * pairs.length), as a 0-based index.
RandomIndex(n, r) == (r * n) \div RandDenom

\* Faulty variant: Math.round for Math.floor; an index equal to the length reads undefined.
randomPair_Round(pairs, r) ==
  LET i == (2 * r * Len(pairs) + RandDenom) \div (2 * RandDenom)
  IN  IF i + 1 > Len(pairs) THEN Null ELSE pairs[i + 1]

\* Faulty variant: Math.ceil for Math.floor.
randomPair_Ceil(pairs, r) ==
  LET i == (r * Len(pairs) + RandDenom - 1) \div RandDenom
  IN  IF i + 1 > Len(pairs) THEN Null ELSE pairs[i + 1]

randomPair(pairs, r) ==
  IF Len(pairs) = 0 THEN Null
  ELSE pairs[RandomIndex(Len(pairs), r) + 1]

(***************************************************************************)
(* Evaluator: normalizeExact, tokenize, jaccardSimilarity, evaluateAnswer. *)
(***************************************************************************)
ExactPunctuation == {".", ",", "!", "?", ";", ":", "(", ")", "QUOT", "'"}

\* Faulty variant: trim() is applied before the punctuation is removed.
normalizeExact_TrimFirst(text) ==
  RemoveChars(trim(toLowerCase(text)), ExactPunctuation)

normalizeExact(text) == trim(RemoveChars(toLowerCase(text), ExactPunctuation))

\* The characters /[^a-zA-Z'RSQ]/ keeps.
TokenChars == LowerLetters \cup UpperLetters \cup {"'", "RSQ"}

\* Faulty variant: without .filter(Boolean) the empty chunks stay.
tokenize_KeepEmpty(text) ==
  LET chunks == SplitRuns(toLowerCase(text), <<>>, FALSE)
  IN  [i \in 1..Len(chunks) |-> SelectSeq(chunks[i], LAMBDA c : c \in TokenChars)]

tokenize(text) ==
  LET chunks == SplitRuns(toLowerCase(text), <<>>, FALSE)
      cleaned == [i \in 1..Len(chunks) |->
                    SelectSeq(chunks[i], LAMBDA c : c \in TokenChars)]
  IN  SelectSeq(cleaned, LAMBDA w : w # <<>>)

\* Faulty variant: the sizes of the arrays stand for the sizes of the sets.
jaccardSimilarity_Multiset(a, b) ==
  LET inter == Cardinality({x \in Range(a) : x \in Range(b)})
  IN  IF Len(a) + Len(b) = 0 THEN <<0, 1>>
      ELSE <<inter * 2, Len(a) + Len(b)>>

\* Faulty variant: the share of the first array's tokens found in the second.
jaccardSimilarity_OverFirst(a, b) ==
  LET inter == Cardinality({x \in Range(a) : x \in Range(b)})
  IN  IF Cardinality(Range(a)) = 0 THEN <<0, 1>>
      ELSE <<inter, Cardinality(Range(a))>>

\* The similarity as the fraction <<numerator, denominator>>.
jaccardSimilarity(a, b) ==
  LET A == Range(a)
      B == Range(b)
      inter == Cardinality({x \in A : x \in B})
  IN  IF Cardinality(A) + Cardinality(B) = 0 THEN <<0, 1>>
      ELSE <<inter * 2, Cardinality(A) + Cardinality(B)>>

\* sim >= k/10 for the fraction sim.
AtLeastTenths(sim, k) == sim[1] * 10 >= k * sim[2]

LabelExact == "EXACT"
LabelNear == "NEAR"
LabelPartial == "PARTIAL"
LabelDifferent == "DIFFERENT"

\* Faulty variant: the bands exclude their lower bounds (> for >=).
evaluateAnswer_StrictBands(model, user) ==
  IF normalizeExact(model) = normalizeExact(user) THEN LabelExact
  ELSE LET sim == jaccardSimilarity(tokenize(model), tokenize(user))
       IN  IF sim[1] * 10 > 8 * sim[2] THEN LabelNear
           ELSE IF sim[1] * 10 > 5 * sim[2] THEN LabelPartial
           ELSE LabelDifferent

\* Faulty variant: the similarity bands are tried before the exact match.
evaluateAnswer_SimilarityFirst(model, user) ==
  LET sim == jaccardSimilarity(tokenize(model), tokenize(user))
  IN  IF AtLeastTenths(sim, 8) THEN LabelNear
      ELSE IF normalizeExact(model) = normalizeExact(user) THEN LabelExact
      ELSE IF AtLeastTenths(sim, 5) THEN LabelPartial
      ELSE LabelDifferent

evaluateAnswer(model, user) ==
  IF normalizeExact(model) = normalizeExact(user) THEN LabelExact
  ELSE LET sim == jaccardSimilarity(tokenize(model), tokenize(user))
       IN  IF AtLeastTenths(sim, 8) THEN LabelNear
           ELSE IF AtLeastTenths(sim, 5) THEN LabelPartial
           ELSE LabelDifferent

(***************************************************************************)
(* GrammarChecker: checkGrammar over the outcome of its fetch.             *)
(*   [kind |-> "reject"]                   the request itself fails        *)
(*   [kind |-> "status", status |-> n]     a non-success response          *)
(*   [kind |-> "badjson"]                  a success whose body is no JSON *)
(*   [kind |-> "json", matches |-> ms]     a success with the findings ms  *)
(* The result is [threw |-> TRUE] when the promise rejects, and            *)
(* [threw |-> FALSE, value |-> messages] when it resolves.                 *)
(***************************************************************************)
RECURSIVE Decimal(_)
Decimal(n) ==
  LET d == <<"0", "1", "2", "3", "4", "5", "6", "7", "8", "9">>
  IN  IF n < 10 THEN <<d[n + 1]>> ELSE Decimal(n \div 10) \o <<d[(n % 10) + 1]>>

HttpErrorPrefix == <<"LanguageTool HTTP error", ":", " ">>
NoIssuesMessage == <<"no grammar issues found">>
Separator == <<" ", "ARROW", " ">>

\* One finding, formatted with its 1-based index.
FormatMatch(m, i) ==
  LET sug == IF Len(m.replacements) >= 1 THEN m.replacements[1].value ELSE <<>>
      head == Decimal(i) \o <<".", " ">> \o m.message
  IN  IF sug # <<>> THEN head \o Separator \o sug ELSE head

checkGrammar(sentence, res) ==
  CASE res.kind = "reject" -> [threw |-> TRUE]
    [] res.kind = "status" ->
         [threw |-> FALSE, value |-> <<HttpErrorPrefix \o Decimal(res.status)>>]
    [] res.kind = "badjson" -> [threw |-> TRUE]
    [] OTHER ->
         IF Len(res.matches) = 0
         THEN [threw |-> FALSE, value |-> <<NoIssuesMessage>>]
         ELSE [threw |-> FALSE,
               value |-> [i \in 1..Len(res.matches) |-> FormatMatch(res.matches[i], i)]]

(***************************************************************************)
(* The inputs of the session: corpus files, typed answers, fetch outcomes  *)
(* of the grammar service and measured frame heights.                      *)
(***************************************************************************)
PairHi == <<"1", "TAB", "H", "i", ".", "TAB", "2", "TAB", "KANA">>
PairAbc == <<"3", "TAB", " ", "a", " ", "b", " ", "c", "TAB", "4", "TAB", "KANA", "KANA", " ">>
LineShort == <<"5", "TAB", "a", "TAB", "6">>
LineNoJpn == <<"7", "TAB", "a", "TAB", "8", "TAB", " ">>

CorpusTexts ==
  { <<>>,
    LineShort \o <<"LF">> \o LineNoJpn,
    PairHi \o <<"LF">>,
    PairHi \o <<"CR", "LF">> \o LineShort \o <<"LF", "LF">> \o PairAbc }

Answers ==
  { <<>>, <<" ">>, <<"h", "i">>, <<"a", " ", "b">>, <<"a">> }

GrammarResponses ==
  { [kind |-> "reject"],
    [kind |-> "status", status |-> 500],
    [kind |-> "badjson"],
    [kind |-> "json", matches |-> <<>>],
    [kind |-> "json",
     matches |-> << [message |-> <<"m">>,
                     replacements |-> <<[value |-> <<"a">>], [value |-> <<"b">>]>>],
                    [message |-> <<"n">>, replacements |-> <<>>] >>] }

MaxHeight == 1
Heights == 0..MaxHeight

(***************************************************************************)
(* The state of the App component.                                        *)
(***************************************************************************)
VARIABLES
  corpus,      \* useState<CorpusPair[]>([])
  frame,       \* useState<FrameState | null>(null)
  loading,     \* useState(true)
  userAnswer,  \* useState("")
  checking,    \* useState(false)
  animating,   \* useState(false)
  animFrom,    \* useState<FrameState | null>(null)
  animTo,      \* useState<FrameState | null>(null)
  fetching,    \* the corpus fetch of the mount effect is outstanding
  pending,     \* the handleCheck calls suspended at `await checkGrammar`, each
               \* with what it captured and the sentence it passed
  effectDue,   \* a commit changed the layout effect's dependencies
  tl,          \* the scheduled gsap timeline, with the animTo it captured
  mounted,     \* the component is mounted
  lastEvent,   \* the kind of the last event handled (history)
  lastGrammar, \* what the latest finished checkGrammar call returned (history)
  fn,          \* the pure function applied last ("none" in the session)
  arg,         \* its argument
  out          \* its result

vars == <<corpus, frame, loading, userAnswer, checking, animating, animFrom,
          animTo, fetching, pending, effectDue, tl, mounted, lastEvent, lastGrammar,
          fn, arg, out>>

Init ==
  /\ corpus = <<>>
  /\ frame = Null
  /\ loading = TRUE
  /\ userAnswer = <<>>
  /\ checking = FALSE
  /\ animating = FALSE
  /\ animFrom = Null
  /\ animTo = Null
  /\ fetching = TRUE
  /\ pending = <<>>
  /\ effectDue = FALSE
  /\ tl = Null
  /\ mounted = TRUE
  /\ lastEvent = "mount"
  /\ lastGrammar = Null
  /\ fn = "none"
  /\ arg = <<>>
  /\ out = <<>>

RemoveAt(s, i) == SubSeq(s, 1, i - 1) \o SubSeq(s, i + 1, Len(s))

\* Faulty variant: the load effect without its empty dependency list, so that
\* it runs again after later renders.
LoadOk_EveryRender ==
  \E txt \in CorpusTexts, r \in Randoms :
    /\ mounted /\ ~effectDue
    /\ fetching' = FALSE
    /\ lastEvent' = "load"
    /\ corpus' = parseCorpus(txt)
    /\ frame' = IF corpus' # <<>>
                THEN [lastResult |-> Null, current |-> corpus'[RandomIndex(Len(corpus'), r) + 1]]
                ELSE frame
    /\ loading' = FALSE
    /\ UNCHANGED <<userAnswer, checking, animating, animFrom, animTo, pending,
                   effectDue, tl, mounted, lastGrammar, fn, arg, out>>

(***************************************************************************)
(* The mount effect: load the corpus.                                      *)
(***************************************************************************)
\* The fetch and res.text() succeed with the text txt.
LoadOk ==
  \E txt \in CorpusTexts, r \in Randoms :
    /\ fetching
    /\ fetching' = FALSE
    /\ lastEvent' = "load"
    /\ IF mounted
       THEN LET parsed == parseCorpus(txt)
                initialQ == randomPair(parsed, r)
            IN  /\ corpus' = parsed
                /\ frame' = IF initialQ # Null
                            THEN [lastResult |-> Null, current |-> initialQ]
                            ELSE frame
                /\ loading' = FALSE
       ELSE UNCHANGED <<corpus, frame, loading>>
    /\ UNCHANGED <<userAnswer, checking, animating, animFrom, animTo, pending,
                   effectDue, tl, mounted, lastGrammar, fn, arg, out>>

\* Faulty variant: load without its finally block.
LoadFail_NoFinally ==
  /\ fetching
  /\ fetching' = FALSE
  /\ lastEvent' = "loadfail"
  /\ UNCHANGED <<corpus, frame, loading, userAnswer, checking, animating, animFrom,
                 animTo, pending, effectDue, tl, mounted, lastGrammar, fn, arg, out>>

\* The fetch or res.text() rejects: only the finally block runs.
LoadFail ==
  /\ fetching
  /\ fetching' = FALSE
  /\ lastEvent' = "loadfail"
  /\ loading' = IF mounted THEN FALSE ELSE loading
  /\ UNCHANGED <<corpus, frame, userAnswer, checking, animating, animFrom,
                 animTo, pending, effectDue, tl, mounted, lastGrammar, fn, arg, out>>

(***************************************************************************)
(* The rendered tree and its event handlers.                               *)
(***************************************************************************)
\* The interactive Frame is rendered.
InteractiveFrame == ~loading /\ frame # Null /\ ~animating

\* The Button is rendered and not disabled.
ButtonEnabled == InteractiveFrame /\ ~checking

\* Faulty variant: onKeyDown without its `if (!checking)`.
KeySubmits_Unguarded == InteractiveFrame

\* The TextField's onKeyDown calls onSubmit on Ctrl/Cmd+Enter.
KeySubmits == InteractiveFrame /\ ~checking

\* pickNextQuestion, over the corpus of the render that made the handler.
pickNextQuestion(c, r) == IF Len(c) = 0 THEN Null ELSE randomPair(c, r)

\* Faulty variant: the blank test without trim().
handleCheck_NoTrim ==
  IF frame = Null \/ userAnswer = <<>>
  THEN UNCHANGED <<checking, pending>>
  ELSE /\ checking' = TRUE
       /\ pending' = Append(pending,
                       [frame |-> frame, userAnswer |-> userAnswer, corpus |-> corpus,
                        evalText |-> evaluateAnswer(frame.current.eng, userAnswer),
                        sentence |-> userAnswer])

\* Faulty variant: the answer is evaluated against the prompt, not the model.
handleCheck_EvalAgainstPrompt ==
  IF frame = Null \/ trim(userAnswer) = <<>>
  THEN UNCHANGED <<checking, pending>>
  ELSE /\ checking' = TRUE
       /\ pending' = Append(pending,
                       [frame |-> frame, userAnswer |-> userAnswer, corpus |-> corpus,
                        evalText |-> evaluateAnswer(frame.current.jpn, userAnswer),
                        sentence |-> userAnswer])

\* handleCheck up to its `await checkGrammar(userAnswer)`.
handleCheck ==
  IF frame = Null \/ trim(userAnswer) = <<>>
  THEN UNCHANGED <<checking, pending>>
  ELSE /\ checking' = TRUE
       /\ pending' = Append(pending,
                       [frame |-> frame, userAnswer |-> userAnswer, corpus |-> corpus,
                        evalText |-> evaluateAnswer(frame.current.eng, userAnswer),
                        sentence |-> userAnswer])

\* onChange of the TextField.
ChangeAnswer ==
  \E v \in Answers :
    /\ mounted /\ ~effectDue
    /\ InteractiveFrame
    /\ userAnswer' = v
    /\ lastEvent' = "input"
    /\ UNCHANGED <<corpus, frame, loading, checking, animating, animFrom, animTo,
                   fetching, pending, effectDue, tl, mounted, lastGrammar, fn, arg, out>>

\* A click on the submit button.
ClickSubmit ==
  /\ mounted /\ ~effectDue
  /\ lastEvent' = "click"
  /\ IF ButtonEnabled THEN handleCheck ELSE UNCHANGED <<checking, pending>>
  /\ UNCHANGED <<corpus, frame, loading, userAnswer, animating, animFrom, animTo,
                 fetching, effectDue, tl, mounted, lastGrammar, fn, arg, out>>

\* Ctrl+Enter or Cmd+Enter in the text field.
KeySubmit ==
  /\ mounted /\ ~effectDue
  /\ lastEvent' = "key"
  /\ IF KeySubmits THEN handleCheck ELSE UNCHANGED <<checking, pending>>
  /\ UNCHANGED <<corpus, frame, loading, userAnswer, animating, animFrom, animTo,
                 fetching, effectDue, tl, mounted, lastGrammar, fn, arg, out>>

(***************************************************************************)
(* handleCheck after its await.                                            *)
(***************************************************************************)
\* Faulty variant: the outgoing frame is rebuilt without the last result.
FromFrame_Blank(c) == [lastResult |-> Null, current |-> c.frame.current]

\* The frames handleCheck hands to the animation.
FromFrame(c) == [lastResult |-> c.frame.lastResult, current |-> c.frame.current]

\* Faulty variant: the result records the input field as it is when the check resolves.
ToFrame_LiveAnswer(c, grammarMessages, newQuestion) ==
  [lastResult |-> [jpn |-> c.frame.current.jpn,
                   eng |-> c.frame.current.eng,
                   userAnswer |-> userAnswer,
                   evalText |-> c.evalText,
                   grammarMessages |-> grammarMessages],
   current |-> newQuestion]

\* Faulty variant: the result takes the model answer of the next question.
ToFrame_NextModelAnswer(c, grammarMessages, newQuestion) ==
  [lastResult |-> [jpn |-> c.frame.current.jpn,
                   eng |-> newQuestion.eng,
                   userAnswer |-> c.userAnswer,
                   evalText |-> c.evalText,
                   grammarMessages |-> grammarMessages],
   current |-> newQuestion]

\* Faulty variant: the new frame keeps the result of the frame before it.
ToFrame_StaleResult(c, grammarMessages, newQuestion) ==
  [lastResult |-> c.frame.lastResult, current |-> newQuestion]

ToFrame(c, grammarMessages, newQuestion) ==
  [lastResult |-> [jpn |-> c.frame.current.jpn,
                   eng |-> c.frame.current.eng,
                   userAnswer |-> c.userAnswer,
                   evalText |-> c.evalText,
                   grammarMessages |-> grammarMessages],
   current |-> newQuestion]

\* Faulty variant: the session state lives outside the component, so the rest
\* of handleCheck still takes effect after the unmount.
GrammarResolve_IgnoresUnmount ==
  \E i \in 1..Len(pending), res \in GrammarResponses, r \in Randoms :
    LET c == pending[i]
        g == checkGrammar(c.sentence, res)
        newQuestion == pickNextQuestion(c.corpus, r)
    IN  /\ ~g.threw
        /\ pending' = RemoveAt(pending, i)
        /\ lastEvent' = res.kind
        /\ lastGrammar' = g
        /\ IF newQuestion = Null
           THEN /\ checking' = FALSE
                /\ UNCHANGED <<animating, animFrom, animTo, effectDue>>
           ELSE /\ animFrom' = FromFrame(c)
                /\ animTo' = ToFrame(c, g.value, newQuestion)
                /\ animating' = TRUE
                /\ effectDue' = TRUE
                /\ UNCHANGED checking
        /\ UNCHANGED <<corpus, frame, loading, userAnswer, fetching, tl, mounted,
                       fn, arg, out>>

\* checkGrammar resolves: the rest of handleCheck runs.
GrammarResolve ==
  \E i \in 1..Len(pending), res \in GrammarResponses, r \in Randoms :
    LET c == pending[i]
        g == checkGrammar(c.sentence, res)
        newQuestion == pickNextQuestion(c.corpus, r)
    IN  /\ ~g.threw
        /\ pending' = RemoveAt(pending, i)
        /\ lastEvent' = res.kind
        /\ lastGrammar' = g
        /\ IF ~mounted
           THEN UNCHANGED <<checking, animating, animFrom, animTo, effectDue>>
           ELSE IF newQuestion = Null
           THEN /\ checking' = FALSE
                /\ UNCHANGED <<animating, animFrom, animTo, effectDue>>
           ELSE /\ animFrom' = FromFrame(c)
                /\ animTo' = ToFrame(c, g.value, newQuestion)
                /\ animating' = TRUE
                /\ effectDue' = TRUE
                /\ UNCHANGED checking
        /\ UNCHANGED <<corpus, frame, loading, userAnswer, fetching, tl, mounted,
                       fn, arg, out>>

\* checkGrammar rejects: handleCheck ends at the await with the exception.
GrammarThrow ==
  \E i \in 1..Len(pending), res \in GrammarResponses :
    /\ checkGrammar(pending[i].sentence, res).threw
    /\ pending' = RemoveAt(pending, i)
    /\ lastEvent' = res.kind
    /\ lastGrammar' = checkGrammar(pending[i].sentence, res)
    /\ UNCHANGED <<corpus, frame, loading, userAnswer, checking, animating,
                   animFrom, animTo, fetching, effectDue, tl, mounted, fn, arg, out>>

(***************************************************************************)
(* The transition: the layout effect and the timeline's onComplete.        *)
(***************************************************************************)
\* Faulty variant: the branch without a height returns like the guards above it.
FallbackCommit_Wait(to) ==
  UNCHANGED <<frame, animating, animFrom, animTo, userAnswer, checking>>

\* Faulty variant: the fallback forgets setUserAnswer("").
FallbackCommit_KeepsAnswer(to) ==
  /\ frame' = to
  /\ animating' = FALSE
  /\ animFrom' = Null
  /\ animTo' = Null
  /\ checking' = FALSE
  /\ UNCHANGED userAnswer

\* Faulty variant: the fallback forgets setChecking(false).
FallbackCommit_KeepsChecking(to) ==
  /\ frame' = to
  /\ animating' = FALSE
  /\ animFrom' = Null
  /\ animTo' = Null
  /\ userAnswer' = <<>>
  /\ UNCHANGED checking

\* The fallback branch of the layout effect (no height).
FallbackCommit(to) ==
  /\ frame' = to
  /\ animating' = FALSE
  /\ animFrom' = Null
  /\ animTo' = Null
  /\ userAnswer' = <<>>
  /\ checking' = FALSE

\* Faulty variant: onComplete forgets setChecking(false).
OnComplete_KeepsChecking(to) ==
  /\ frame' = to
  /\ animating' = FALSE
  /\ animFrom' = Null
  /\ animTo' = Null
  /\ userAnswer' = <<>>
  /\ UNCHANGED checking

\* Faulty variant: onComplete forgets setAnimTo(null).
OnComplete_KeepsAnimTo(to) ==
  /\ frame' = to
  /\ animating' = FALSE
  /\ animFrom' = Null
  /\ UNCHANGED animTo
  /\ userAnswer' = <<>>
  /\ checking' = FALSE

\* Faulty variant: onComplete forgets setUserAnswer("").
OnComplete_KeepsAnswer(to) ==
  /\ frame' = to
  /\ animating' = FALSE
  /\ animFrom' = Null
  /\ animTo' = Null
  /\ UNCHANGED userAnswer
  /\ checking' = FALSE

\* onComplete of the timeline.
OnComplete(to) ==
  /\ frame' = to
  /\ animating' = FALSE
  /\ animFrom' = Null
  /\ animTo' = Null
  /\ userAnswer' = <<>>
  /\ checking' = FALSE

\* useLayoutEffect on [animating, animFrom, animTo], with the height h it measures.
LayoutEffect ==
  \E h \in Heights :
    /\ mounted /\ effectDue
    /\ effectDue' = FALSE
    /\ IF ~animating \/ animFrom = Null \/ animTo = Null
       THEN /\ lastEvent' = "effect"
            /\ UNCHANGED <<frame, animating, animFrom, animTo, userAnswer, checking, tl>>
       ELSE IF h = 0
       THEN /\ lastEvent' = "fallback"
            /\ FallbackCommit(animTo)
            /\ UNCHANGED tl
       ELSE /\ lastEvent' = "effect"
            /\ tl' = [to |-> animTo]
            /\ UNCHANGED <<frame, animating, animFrom, animTo, userAnswer, checking>>
    /\ UNCHANGED <<corpus, loading, fetching, pending, mounted, lastGrammar, fn, arg, out>>

\* The timeline reaches its end and calls onComplete.
AnimComplete ==
  /\ tl # Null
  /\ lastEvent' = "complete"
  /\ IF mounted
     THEN OnComplete(tl.to)
     ELSE UNCHANGED <<frame, animating, animFrom, animTo, userAnswer, checking>>
  /\ tl' = Null
  /\ UNCHANGED <<corpus, loading, fetching, pending, effectDue, mounted,
                 lastGrammar, fn, arg, out>>

\* Faulty variant: the layout effect returns no cleanup, so the timeline
\* outlives the component.
Teardown_NoKill ==
  /\ mounted /\ ~effectDue
  /\ mounted' = FALSE
  /\ lastEvent' = "teardown"
  /\ UNCHANGED <<corpus, frame, loading, userAnswer, checking, animating, animFrom,
                 animTo, fetching, pending, effectDue, tl, lastGrammar, fn, arg, out>>

\* The component unmounts: the effect's cleanup kills the timeline.
Teardown ==
  /\ mounted /\ ~effectDue
  /\ mounted' = FALSE
  /\ tl' = Null
  /\ lastEvent' = "teardown"
  /\ UNCHANGED <<corpus, frame, loading, userAnswer, checking, animating, animFrom,
                 animTo, fetching, pending, effectDue, lastGrammar, fn, arg, out>>

Next ==
  \/ LoadOk
  \/ LoadFail
  \/ ChangeAnswer
  \/ ClickSubmit
  \/ KeySubmit
  \/ GrammarResolve
  \/ GrammarThrow
  \/ LayoutEffect
  \/ AnimComplete
  \/ Teardown

Spec == Init /\ [][Next]_vars

(***************************************************************************)
(* The plain component of src/src/App.tsx.  Its `current` and `lastResult` *)
(* states are the two fields of frame (frame = Null while current is       *)
(* null); it has no transition, so animating, animFrom, animTo, effectDue  *)
(* and tl keep their initial values.                                       *)
(***************************************************************************)
MaxPending == 2

\* The inputs this variant is explored with.
AppCorpusTexts == { <<>>, PairHi \o <<"LF">>, LineShort \o <<"LF">> \o PairAbc }
AppResponses == { res \in GrammarResponses : res.kind \in {"reject", "status"} }

AppLoadOk ==
  \E txt \in AppCorpusTexts, r \in Randoms :
    /\ fetching
    /\ fetching' = FALSE
    /\ lastEvent' = "load"
    /\ LET parsed == parseCorpus(txt)
           q == randomPair(parsed, r)
       IN  /\ corpus' = parsed
           /\ frame' = IF q # Null THEN [lastResult |-> Null, current |-> q] ELSE Null
    /\ loading' = FALSE
    /\ UNCHANGED <<userAnswer, checking, animating, animFrom, animTo, pending,
                   effectDue, tl, mounted, lastGrammar, fn, arg, out>>

AppLoadFail ==
  /\ fetching
  /\ fetching' = FALSE
  /\ lastEvent' = "loadfail"
  /\ loading' = FALSE
  /\ UNCHANGED <<corpus, frame, userAnswer, checking, animating, animFrom,
                 animTo, pending, effectDue, tl, mounted, lastGrammar, fn, arg, out>>

\* The question form is rendered.
AppFormRendered == ~loading /\ frame # Null

\* The Button is rendered and not disabled.
AppButtonEnabled == AppFormRendered /\ ~checking

\* The TextField's onKeyDown calls handleCheck on Ctrl/Cmd+Enter.
AppKeySubmits == AppFormRendered

\* handleCheck up to its `await checkGrammar(userAnswer)`.
AppHandleCheck ==
  IF frame = Null \/ trim(userAnswer) = <<>>
  THEN UNCHANGED <<checking, pending>>
  ELSE /\ Len(pending) < MaxPending
       /\ checking' = TRUE
       /\ pending' = Append(pending,
                       [frame |-> frame, userAnswer |-> userAnswer, corpus |-> corpus,
                        evalText |-> evaluateAnswer(frame.current.eng, userAnswer),
                        sentence |-> userAnswer])

AppChangeAnswer ==
  \E v \in Answers :
    /\ AppFormRendered
    /\ userAnswer' = v
    /\ lastEvent' = "input"
    /\ UNCHANGED <<corpus, frame, loading, checking, animating, animFrom, animTo,
                   fetching, pending, effectDue, tl, mounted, lastGrammar, fn, arg, out>>

AppClickSubmit ==
  /\ lastEvent' = "click"
  /\ IF AppButtonEnabled THEN AppHandleCheck ELSE UNCHANGED <<checking, pending>>
  /\ UNCHANGED <<corpus, frame, loading, userAnswer, animating, animFrom, animTo,
                 fetching, effectDue, tl, mounted, lastGrammar, fn, arg, out>>

AppKeySubmit ==
  /\ lastEvent' = "key"
  /\ IF AppKeySubmits THEN AppHandleCheck ELSE UNCHANGED <<checking, pending>>
  /\ UNCHANGED <<corpus, frame, loading, userAnswer, animating, animFrom, animTo,
                 fetching, effectDue, tl, mounted, lastGrammar, fn, arg, out>>

\* checkGrammar resolves: setLastResult, nextQuestion, setChecking(false).
AppGrammarResolve ==
  \E i \in 1..Len(pending), res \in AppResponses, r \in Randoms :
    LET c == pending[i]
        g == checkGrammar(c.sentence, res)
        result == [jpn |-> c.frame.current.jpn,
                   eng |-> c.frame.current.eng,
                   userAnswer |-> c.userAnswer,
                   evalText |-> c.evalText,
                   grammarMessages |-> g.value]
    IN  /\ ~g.threw
        /\ pending' = RemoveAt(pending, i)
        /\ lastEvent' = res.kind
        /\ lastGrammar' = g
        /\ IF Len(c.corpus) = 0
           THEN /\ frame' = [lastResult |-> result, current |-> frame.current]
                /\ UNCHANGED userAnswer
           ELSE /\ frame' = [lastResult |-> result, current |-> randomPair(c.corpus, r)]
                /\ userAnswer' = <<>>
        /\ checking' = FALSE
        /\ UNCHANGED <<corpus, loading, animating, animFrom, animTo, fetching,
                       effectDue, tl, mounted, fn, arg, out>>

\* checkGrammar rejects: handleCheck ends at the await with the exception.
AppGrammarThrow ==
  \E i \in 1..Len(pending), res \in AppResponses :
    /\ checkGrammar(pending[i].sentence, res).threw
    /\ pending' = RemoveAt(pending, i)
    /\ lastEvent' = res.kind
    /\ lastGrammar' = checkGrammar(pending[i].sentence, res)
    /\ UNCHANGED <<corpus, frame, loading, userAnswer, checking, animating,
                   animFrom, animTo, fetching, effectDue, tl, mounted, fn, arg, out>>

NextApp ==
  \/ AppLoadOk
  \/ AppLoadFail
  \/ AppChangeAnswer
  \/ AppClickSubmit
  \/ AppKeySubmit
  \/ AppGrammarResolve
  \/ AppGrammarThrow

SpecApp == Init /\ [][NextApp]_vars

\* The timer of a scheduled timeline fires, and a committed render runs its
\* layout effect, unless the component unmounts first.
LiveSpec == Spec /\ WF_vars(LayoutEffect) /\ WF_vars(AnimComplete)

(***************************************************************************)
(* The states of the session controller.                                   *)
(***************************************************************************)
Loading == loading
EmptyCorpus == ~loading /\ frame = Null
Ready == ~loading /\ frame # Null /\ ~checking /\ ~animating
Checking == checking /\ ~animating
Transitioning == animating

SubmitEvent == lastEvent' \in {"click", "key"}
GrammarEvent == lastEvent' \in {"reject", "status", "badjson", "json"} /\ pending' # pending
CompletionEvent == lastEvent' \in {"fallback", "complete"} /\ animating

\* No outstanding check was started from a render without a corpus, so the
\* branch of handleCheck that gives up for want of a next question never runs
\* (the case C8 is about has no reachable state).
EveryCheckHasCorpus == \A i \in 1..Len(pending) : Len(pending[i].corpus) > 0

(***************************************************************************)
(* Claims.                                                                 *)
(***************************************************************************)

\* C1: a submit (button click or Ctrl/Cmd+Enter) issued while the session is
\* checking or in a transition is a no-op: frame, input buffer, checking flag
\* and the outstanding grammar requests are unchanged by it.
\* Holds of Spec; SpecApp violates it through the key handler of App.tsx.
C1_SubmitWhileBusyIsNoOp ==
  [][(SubmitEvent /\ (checking \/ animating))
       => (frame' = frame /\ userAnswer' = userAnswer /\ checking' = checking
           /\ pending' = pending)]_vars

\* C2: at most one cycle is in flight: never more than one outstanding grammar
\* check, never a grammar check outstanding while a transition is in progress,
\* and a scheduled timeline only for the one transition in progress.
C2_OneCycleInFlight ==
  /\ Len(pending) <= 1
  /\ animating => pending = <<>>
  /\ effectDue => animating
  /\ tl # Null => (animating /\ tl.to = animTo /\ ~effectDue)

C2_Witness ==
  /\ Len(pending) = 1
  /\ lastEvent \in {"click", "key"}
  /\ frame # Null /\ frame.lastResult # Null

\* C3: when the grammar call of an accepted submission fails, by a non-success
\* response or by the request itself failing, the session leaves CHECKING for
\* a transition whose new frame carries a single diagnostic message.
C3_GrammarFailureStillAdvances ==
  [][(mounted /\ GrammarEvent /\ lastEvent' \in {"reject", "status"})
       => (animating' /\ Len(animTo'.lastResult.grammarMessages) = 1)]_vars

\* C4: every transition resolves: a session in TRANSITIONING(from, to) reaches
\* READY(to), by the timed animation or by the fallback, for as long as the
\* component is mounted; it leaves TRANSITIONING only for READY(to).
C4_TransitionResolves ==
  /\ animating ~> (~animating \/ ~mounted)
  /\ [][(animating /\ ~animating') => (frame' = animTo /\ Ready')]_vars

C4_Witness ==
  /\ lastEvent = "fallback"
  /\ Ready
  /\ frame.lastResult # Null

\* C5: the fallback path and the timed path of a transition (from, to) end in
\* the same state: frame = to, input buffer empty, checking false, no
\* transition pending, everything else as it was.
C5_SameEndState ==
  [][CompletionEvent
       => (/\ frame' = animTo
           /\ userAnswer' = <<>>
           /\ checking' = FALSE
           /\ animating' = FALSE /\ animFrom' = Null /\ animTo' = Null
           /\ tl' = Null /\ effectDue' = FALSE
           /\ corpus' = corpus /\ pending' = pending /\ loading' = loading)]_vars

C5_Witness ==
  /\ lastEvent = "complete"
  /\ frame.lastResult # Null
  /\ frame.lastResult.userAnswer = <<"a", " ", "b">>
  /\ userAnswer = <<>> /\ ~checking /\ ~animating

\* C6: after load the frame changes only in the transition-completion step,
\* which also empties the input buffer and clears the checking flag; submit,
\* input edits, grammar resolution and the start of a transition leave it.
C6_FrameChangesOnlyOnCompletion ==
  /\ [][(~loading /\ frame' # frame) => CompletionEvent]_vars
  /\ [][CompletionEvent => (userAnswer' = <<>> /\ checking' = FALSE)]_vars

C6_Witness ==
  /\ Checking /\ Len(pending) = 1
  /\ lastEvent = "input"
  /\ userAnswer # pending[1].userAnswer

\* C7: when a check resolves and a next pair is sampled, the transition starts
\* with from = the frame current at submit, to.current a corpus pair, and
\* to.lastResult built from the cycle: prompt and model answer of from.current,
\* the submitted answer, its evaluation, and the grammar call's messages.
C7_TransitionFrames ==
  [][(~animating /\ animating')
       => (/\ Len(pending) = 1
           /\ animFrom' = pending[1].frame
           /\ animFrom' = frame
           /\ animTo'.current \in Range(corpus)
           /\ animTo'.lastResult.jpn = frame.current.jpn
           /\ animTo'.lastResult.eng = frame.current.eng
           /\ animTo'.lastResult.userAnswer = pending[1].userAnswer
           /\ animTo'.lastResult.evalText =
                evaluateAnswer(frame.current.eng, pending[1].userAnswer)
           /\ ~lastGrammar'.threw
           /\ animTo'.lastResult.grammarMessages = lastGrammar'.value)]_vars

C7_Witness ==
  /\ animating /\ effectDue
  /\ animTo.lastResult.evalText = LabelNear
  /\ Len(animTo.lastResult.grammarMessages) = 2
  /\ userAnswer # animTo.lastResult.userAnswer

\* C9: a cycle starts only through a submit with a non-blank answer from
\* READY: a submit of an empty or white-space answer starts no check and
\* changes nothing, and no other event sets checking or issues a request.
C9_OnlyNonBlankSubmitStartsCycle ==
  /\ [][(SubmitEvent /\ trim(userAnswer) = <<>>)
          => (checking' = checking /\ pending' = pending /\ frame' = frame
              /\ userAnswer' = userAnswer)]_vars
  /\ [][((~checking /\ checking') \/ Len(pending') > Len(pending))
          => (SubmitEvent /\ Ready /\ trim(userAnswer) # <<>>)]_vars

C9_Witness ==
  /\ lastEvent = "click"
  /\ Ready
  /\ userAnswer = <<" ">>
  /\ pending = <<>>

\* C10: a load that yields at least one pair moves the session from LOADING to
\* READY on the initial frame: no lastResult, current a pair of the parsed
\* corpus, empty input buffer, checking false, no transition.
C10_LoadReachesReady ==
  [][(loading /\ lastEvent' = "load" /\ mounted /\ Len(corpus') >= 1)
       => (/\ Ready'
           /\ frame'.lastResult = Null
           /\ frame'.current \in Range(corpus')
           /\ userAnswer' = <<>>
           /\ animFrom' = Null /\ animTo' = Null /\ tl' = Null
           /\ pending' = <<>>)]_vars

C10_Witness ==
  /\ lastEvent = "load"
  /\ Len(corpus) = 2
  /\ Ready
  /\ frame.current = corpus[2]

(***************************************************************************)
(* C11.  A load that yields no usable pair, and a load that fails, end     *)
(* LOADING in EMPTY_CORPUS: loading is over and there is no frame.  From   *)
(* then on no step creates a frame (so READY is never reached), and a      *)
(* submit there changes no session state and issues no grammar request.    *)
(***************************************************************************)
C11_EmptyCorpusIsIdle ==
  /\ [][(mounted /\ loading /\ lastEvent' \in {"load", "loadfail"} /\ Len(corpus') = 0)
          => EmptyCorpus']_vars
  /\ [][EmptyCorpus => (EmptyCorpus' /\ ~Ready')]_vars
  /\ [][(EmptyCorpus /\ SubmitEvent)
          => UNCHANGED <<corpus, frame, loading, userAnswer, checking, pending,
                         animating, animFrom, animTo, effectDue, tl>>]_vars
  /\ [](EmptyCorpus => (pending = <<>> /\ ~checking /\ ~animating))

C11_Witness ==
  /\ EmptyCorpus /\ mounted
  /\ lastEvent \in {"click", "key"}
  /\ corpus = <<>>

\* The latest checkGrammar call ended with an exception.
GrammarRejected == lastGrammar # Null /\ lastGrammar.threw

C13_TransitionExistsOnlyWhileAnimating ==
  /\ [](animating <=> (animFrom # Null /\ animTo # Null))
  /\ []((animFrom = Null) <=> (animTo = Null))
  /\ []((loading \/ frame = Null \/ ~checking \/ Len(pending) >= 1)
          => (~animating /\ animFrom = Null /\ animTo = Null))
  /\ [][(~animating /\ animating') => (GrammarEvent /\ ~GrammarRejected')]_vars
  /\ [][(animating /\ ~animating') => CompletionEvent]_vars
  /\ [][CompletionEvent => (~animating' /\ animFrom' = Null /\ animTo' = Null)]_vars

C13_Witness ==
  /\ mounted /\ animating
  /\ animFrom # Null /\ animTo # Null
  /\ animFrom.lastResult # Null
  /\ tl # Null

(***************************************************************************)
(* C14.  Once the load is over no step changes the corpus, neither its     *)
(* pairs nor their order: the only step that changes it is the load        *)
(* itself, and every outstanding submit works on that same corpus.         *)
(***************************************************************************)
C14_CorpusFixedAfterLoad ==
  /\ [][~fetching => corpus' = corpus]_vars
  /\ [][corpus' # corpus => (fetching /\ lastEvent' = "load")]_vars
  /\ [](\A i \in 1..Len(pending) : pending[i].corpus = corpus)

C14_Witness ==
  /\ ~fetching
  /\ Len(corpus) = 2
  /\ lastEvent = "complete"
  /\ frame.lastResult # Null

(***************************************************************************)
(* C15.  Unmounting while a timeline is scheduled kills it: after the      *)
(* unmount no timeline exists, onComplete never runs, and no step changes  *)
(* the frame, the input, checking or the transition.                       *)
(***************************************************************************)
C15_TeardownCancelsAnimation ==
  /\ [][(mounted /\ ~mounted') => tl' = Null]_vars
  /\ [](~mounted => tl = Null)
  /\ [][~mounted => lastEvent' \notin {"complete", "fallback", "effect"}]_vars
  /\ [][~mounted => UNCHANGED <<frame, userAnswer, checking, animating,
                                animFrom, animTo, tl>>]_vars

\* Unmounted in the middle of a transition whose timeline was scheduled.
C15_Witness ==
  /\ ~mounted
  /\ lastEvent = "teardown"
  /\ animating /\ animTo # Null
  /\ ~effectDue

SinglePairExact(u) ==
  /\ Len(corpus) = 1
  /\ normalizeExact(corpus[1].eng) = normalizeExact(u)

(***************************************************************************)
(* C17.  With a corpus of one pair and an answer equal to the model answer *)
(* up to case and stripped punctuation: the accepted submit issues exactly *)
(* one grammar request, on exactly the text of the input; no other request *)
(* is issued before the cycle ends; the step that settles the request      *)
(* builds a frame whose result has the label EXACT and that text as the    *)
(* user's answer, and whose question is the one pair; the completion step  *)
(* makes that frame the session's frame.                                   *)
(***************************************************************************)
C17_SinglePairExactCycle ==
  /\ [][(SubmitEvent /\ pending' # pending /\ SinglePairExact(userAnswer))
          => (/\ pending = <<>> /\ Len(pending') = 1
              /\ pending'[1].sentence = userAnswer
              /\ pending'[1].userAnswer = userAnswer
              /\ userAnswer' = userAnswer)]_vars
  /\ [][(checking /\ Len(corpus) = 1) => Len(pending') <= Len(pending)]_vars
  /\ [][(~animating /\ animating' /\ SinglePairExact(pending[1].sentence))
          => (/\ animTo'.lastResult.evalText = LabelExact
              /\ animTo'.lastResult.userAnswer = pending[1].sentence
              /\ animTo'.lastResult.eng = corpus[1].eng
              /\ animTo'.current = corpus[1])]_vars
  /\ [][(CompletionEvent /\ SinglePairExact(animTo.lastResult.userAnswer))
          => (/\ frame'.lastResult.evalText = LabelExact
              /\ frame'.lastResult.userAnswer = animTo.lastResult.userAnswer
              /\ frame'.current = corpus[1])]_vars

\* "hi" was submitted for the model answer "Hi." and the transition completed.
C17_Witness ==
  /\ Len(corpus) = 1
  /\ lastEvent = "complete"
  /\ frame # Null /\ frame.lastResult # Null
  /\ frame.lastResult.eng = <<"H", "i", ".">>
  /\ frame.lastResult.userAnswer = <<"h", "i">>
  /\ frame.lastResult.evalText = LabelExact
  /\ frame.current = corpus[1]

(***************************************************************************)
(* The pure functions applied to inputs drawn from bounded sets.  The      *)
(* session does not move in these specifications: fn, arg and out record   *)
(* the one application.                                                    *)
(***************************************************************************)
sessionVars == <<corpus, frame, loading, userAnswer, checking, animating, animFrom,
                 animTo, fetching, pending, effectDue, tl, mounted, lastEvent,
                 lastGrammar>>

\* All sequences over S of length at most n.
SeqsUpTo(S, n) == UNION { [1..k -> S] : k \in 0..n }

MaxMatches == 2
MaxReplacements == 2

\* The findings of a LanguageTool response (LTMatch), and the outcomes of the
\* fetch in checkGrammar.
ReplacementValues == { <<>>, <<"a">> }
Findings ==
  [message : { <<"m">>, <<"n">> },
   replacements : SeqsUpTo([value : ReplacementValues], MaxReplacements)]
FetchOutcomes ==
  { [kind |-> "reject"], [kind |-> "badjson"] }
    \cup [kind : {"status"}, status : {404, 500}]
    \cup [kind : {"json"}, matches : SeqsUpTo(Findings, MaxMatches)]

ApplyCheckGrammar ==
  /\ fn = "none"
  /\ \E sentence \in Answers, res \in FetchOutcomes :
       /\ fn' = "checkGrammar"
       /\ arg' = <<sentence, res>>
       /\ out' = checkGrammar(sentence, res)
  /\ UNCHANGED sessionVars

NextGrammar == ApplyCheckGrammar

SpecGrammar == Init /\ [][NextGrammar]_vars

MaxTextLen == 3

\* Texts over a letter in both cases, the apostrophe (stripped by
\* normalizeExact, kept by tokenize), a blank and a full stop.
EvalChars == { "a", "A", "'", " ", "." }
EvalTexts == SeqsUpTo(EvalChars, MaxTextLen)

ApplyEvaluateAnswer ==
  /\ fn = "none"
  /\ \E model \in EvalTexts, user \in EvalTexts :
       /\ fn' = "evaluateAnswer"
       /\ arg' = <<model, user>>
       /\ out' = evaluateAnswer(model, user)
  /\ UNCHANGED sessionVars

MaxWords == 3

\* Sentences of up to MaxWords words, for similarities such as 4/5 and 2/4.
Vocabulary == { <<"a">>, <<"b">>, <<"c">>, <<"h">> }

RECURSIVE JoinWords(_)
JoinWords(ws) ==
  IF Len(ws) = 0 THEN <<>>
  ELSE IF Len(ws) = 1 THEN ws[1]
  ELSE ws[1] \o <<" ">> \o JoinWords(Tail(ws))

WordTexts == { JoinWords(ws) : ws \in SeqsUpTo(Vocabulary, MaxWords) }

ApplyEvaluateSentences ==
  /\ fn = "none"
  /\ \E model \in WordTexts, user \in WordTexts :
       /\ fn' = "evaluateAnswer"
       /\ arg' = <<model, user>>
       /\ out' = evaluateAnswer(model, user)
  /\ UNCHANGED sessionVars

NextEvaluate ==
  \/ ApplyEvaluateAnswer
  \/ ApplyEvaluateSentences

SpecEvaluate == Init /\ [][NextEvaluate]_vars

\* The text s ends with the text t.
EndsWith(s, t) ==
  Len(s) >= Len(t) /\ SubSeq(s, Len(s) - Len(t) + 1, Len(s)) = t

(***************************************************************************)
(* C18.  checkGrammar never throws: whatever the outcome of its request it *)
(* returns a sequence of strings, and on a non-success response exactly    *)
(* one string, which ends with the status.                                 *)
(***************************************************************************)
C18_CheckGrammarNeverThrows ==
  (fn = "checkGrammar")
    => (/\ ~out.threw
        /\ (arg[2].kind = "status")
             => (Len(out.value) = 1 /\ EndsWith(out.value[1], Decimal(arg[2].status))))

(***************************************************************************)
(* C19.  On a successful response without findings checkGrammar returns    *)
(* the one sentinel string; with N findings it returns N strings in the    *)
(* order of the findings, the i-th made of the index i, the message and,   *)
(* exactly when the finding has at least one replacement, the separator    *)
(* and the first replacement.                                              *)
(***************************************************************************)
C19_OneStringPerFinding ==
  (fn = "checkGrammar" /\ arg[2].kind = "json")
    => LET ms == arg[2].matches
       IN  /\ ~out.threw
           /\ IF Len(ms) = 0
              THEN out.value = <<NoIssuesMessage>>
              ELSE /\ Len(out.value) = Len(ms)
                   /\ \A i \in 1..Len(ms) :
                        out.value[i] =
                          Decimal(i) \o <<".", " ">> \o ms[i].message
                            \o (IF Len(ms[i].replacements) >= 1
                                THEN Separator \o ms[i].replacements[1].value
                                ELSE <<>>)

(***************************************************************************)
(* C20.  evaluateAnswer returns EXACT exactly when the two texts have the  *)
(* same normalizeExact form, whatever their token overlap.                 *)
(***************************************************************************)
C20_ExactIffNormalizedEqual ==
  (fn = "evaluateAnswer")
    => ((out = LabelExact) <=> (normalizeExact(arg[1]) = normalizeExact(arg[2])))

\* EXACT for two different texts, each with a token, whose similarity is
\* below 0.5.
C20_Witness ==
  /\ fn = "evaluateAnswer"
  /\ out = LabelExact
  /\ arg[1] # arg[2]
  /\ tokenize(arg[1]) # <<>> /\ tokenize(arg[2]) # <<>>
  /\ ~AtLeastTenths(jaccardSimilarity(tokenize(arg[1]), tokenize(arg[2])), 5)

(***************************************************************************)
(* C21.  For two texts that are not an exact match, with s the similarity  *)
(* of their token sequences: s >= 0.8 gives NEAR, 0.5 <= s < 0.8 gives     *)
(* PARTIAL and s < 0.5 gives DIFFERENT.  Every input gets one of the four  *)
(* labels.                                                                 *)
(***************************************************************************)
C21_BandsIncludeLowerBound ==
  (fn = "evaluateAnswer")
    => LET s == jaccardSimilarity(tokenize(arg[1]), tokenize(arg[2]))
       IN  /\ out \in {LabelExact, LabelNear, LabelPartial, LabelDifferent}
           /\ (normalizeExact(arg[1]) # normalizeExact(arg[2]))
                => /\ (s[1] * 10 >= 8 * s[2]) => out = LabelNear
                   /\ (s[1] * 10 >= 5 * s[2] /\ s[1] * 10 < 8 * s[2])
                        => out = LabelPartial
                   /\ (s[1] * 10 < 5 * s[2]) => out = LabelDifferent

\* Two shared tokens of 2 and 3: the similarity is exactly 0.8, the label NEAR.
C21_Witness ==
  /\ fn = "evaluateAnswer"
  /\ jaccardSimilarity(tokenize(arg[1]), tokenize(arg[2])) = <<4, 5>>
  /\ out = LabelNear

(***************************************************************************)
(* jaccardSimilarity applied to token sequences of up to MaxWords tokens.  *)
(***************************************************************************)
SimTokens == { <<"a">>, <<"b">>, <<"c">> }
TokenSeqs == SeqsUpTo(SimTokens, MaxWords)

ApplySimilarity ==
  /\ fn = "none"
  /\ \E a \in TokenSeqs, b \in TokenSeqs :
       /\ fn' = "jaccardSimilarity"
       /\ arg' = <<a, b>>
       /\ out' = jaccardSimilarity(a, b)
  /\ UNCHANGED sessionVars

NextSimilarity == ApplySimilarity

SpecSimilarity == Init /\ [][NextSimilarity]_vars

(***************************************************************************)
(* C22.  The similarity of two token sequences is 2*|A \cap B| over        *)
(* |A| + |B| for their token sets A and B, so it does not depend on        *)
(* duplicates or order; it lies in [0,1], is 1 when A = B is not empty,    *)
(* and is 0 when both sequences are empty.                                 *)
(***************************************************************************)
C22_SimilarityOfSets ==
  (fn = "jaccardSimilarity")
    => LET A == Range(arg[1])
           B == Range(arg[2])
           n == 2 * Cardinality(A \cap B)
           d == Cardinality(A) + Cardinality(B)
       IN  /\ out[2] > 0 /\ 0 <= out[1] /\ out[1] <= out[2]
           /\ (d > 0) => (out[1] * d = n * out[2])
           /\ (A = B /\ A # {}) => (out[1] = out[2])
           /\ (d = 0) => (out[1] = 0)

\* The same two tokens, duplicated and in another order: the similarity is 1.
C22_Witness ==
  /\ fn = "jaccardSimilarity"
  /\ arg = << << <<"a">>, <<"b">>, <<"a">> >>, << <<"b">>, <<"a">> >> >>
  /\ out[1] = out[2]

(***************************************************************************)
(* parseCorpus applied to files of up to MaxLines lines, separated by LF   *)
(* or by CR LF.  arg records the file and the lines it was made of.        *)
(***************************************************************************)
MaxLines == 3

CorpusLines ==
  { <<>>,
    <<" ">>,
    <<"1", "TAB", " ", "a", "TAB", "2", "TAB", "b">>,
    <<"TAB", "b", "TAB", "TAB", "a", " ", "TAB", "c">>,
    <<"TAB", " ", "TAB", "TAB", "b">>,
    <<"TAB", "a", "TAB", "TAB", " ">>,
    <<"1", "TAB", "a", "TAB", "b">> }

LineEnds == { <<"LF">>, <<"CR", "LF">> }

RECURSIVE JoinLines(_, _)
JoinLines(ls, end) ==
  IF Len(ls) = 0 THEN <<>>
  ELSE IF Len(ls) = 1 THEN ls[1]
  ELSE ls[1] \o end \o JoinLines(Tail(ls), end)

ApplyParseCorpus ==
  /\ fn = "none"
  /\ \E ls \in SeqsUpTo(CorpusLines, MaxLines), end \in LineEnds :
       /\ fn' = "parseCorpus"
       /\ arg' = [tsv |-> JoinLines(ls, end), lines |-> ls]
       /\ out' = parseCorpus(JoinLines(ls, end))
  /\ UNCHANGED sessionVars

NextParse == ApplyParseCorpus

SpecParse == Init /\ [][NextParse]_vars

\* The tab-separated fields of a line.
Fields(line) == SplitOn(line, {"TAB"}, <<>>)

\* The line is not blank, has at least 4 fields, and its fields 1 and 3 are
\* not empty after trimming.
UsableLine(line) ==
  /\ trim(line) # <<>>
  /\ Len(Fields(line)) >= 4
  /\ trim(Fields(line)[2]) # <<>>
  /\ trim(Fields(line)[4]) # <<>>

(***************************************************************************)
(* C23.  parseCorpus returns, in the order of their lines, one pair for    *)
(* each usable line and nothing for any other line; the pair is made of    *)
(* the trimmed fields 1 and 3, so neither of its texts is empty.           *)
(***************************************************************************)
C23_PairIffUsableLine ==
  (fn = "parseCorpus")
    => LET good == SelectSeq(arg.lines, UsableLine)
       IN  /\ Len(out) = Len(good)
           /\ \A i \in 1..Len(good) :
                /\ out[i].eng = trim(Fields(good[i])[2])
                /\ out[i].jpn = trim(Fields(good[i])[4])
                /\ out[i].eng # <<>> /\ out[i].jpn # <<>>

\* Two usable lines around a dropped one: two pairs, in the order of the lines.
C23_Witness ==
  /\ fn = "parseCorpus"
  /\ Len(arg.lines) = 3
  /\ UsableLine(arg.lines[1]) /\ ~UsableLine(arg.lines[2]) /\ UsableLine(arg.lines[3])
  /\ arg.lines[1] # arg.lines[3]
  /\ trim(arg.lines[2]) # <<>>
  /\ Len(out) = 2
  /\ out[1] # out[2]

(***************************************************************************)
(* randomPair applied to corpora of up to MaxPairs pairs and every value   *)
(* of Math.random().                                                       *)
(***************************************************************************)
MaxPairs == 3

SamplePairs ==
  { [eng |-> <<"a">>, jpn |-> <<"KANA">>],
    [eng |-> <<"b">>, jpn |-> <<"KANA">>],
    [eng |-> <<"c">>, jpn |-> <<"KANA", "KANA">>] }

ApplyRandomPair ==
  /\ fn = "none"
  /\ \E pairs \in SeqsUpTo(SamplePairs, MaxPairs), r \in Randoms :
       /\ fn' = "randomPair"
       /\ arg' = [pairs |-> pairs, r |-> r]
       /\ out' = randomPair(pairs, r)
  /\ UNCHANGED sessionVars

NextSample == ApplyRandomPair

SpecSample == Init /\ [][NextSample]_vars

(***************************************************************************)
(* C24.  randomPair returns null exactly when the corpus is empty;         *)
(* otherwise it returns the pair at an index from 0 to length - 1, hence   *)
(* a member of the corpus.                                                 *)
(***************************************************************************)
C24_SampleIsMember ==
  (fn = "randomPair")
    => /\ (out = Null) <=> (arg.pairs = <<>>)
       /\ (arg.pairs # <<>>)
            => /\ \E i \in 0..(Len(arg.pairs) - 1) : out = arg.pairs[i + 1]
               /\ RandomIndex(Len(arg.pairs), arg.r) \in 0..(Len(arg.pairs) - 1)
               /\ out = arg.pairs[RandomIndex(Len(arg.pairs), arg.r) + 1]

\* The largest random number picks the last pair of three, not one past it.
C24_Witness ==
  /\ fn = "randomPair"
  /\ Len(arg.pairs) = 3
  /\ arg.r = RandDenom - 1
  /\ out = arg.pairs[3]
  /\ arg.pairs[3] # arg.pairs[2]

(***************************************************************************)
(* normalizeExact applied to all texts of up to MaxTextLen characters over *)
(* letters, punctuation and white space, and to two sample sentences.      *)
(***************************************************************************)
NormChars == { "a", "B", ".", ",", "'", "QUOT", " ", "LF" }
SampleHiAb == <<"H", "i", ",", " ", "A", "b", "!">>
SampleHiAbPlain == <<"h", "i", " ", "a", "b">>
NormTexts == SeqsUpTo(NormChars, MaxTextLen) \cup { SampleHiAb, SampleHiAbPlain }

ApplyNormalizeExact ==
  /\ fn = "none"
  /\ \E text \in NormTexts :
       /\ fn' = "normalizeExact"
       /\ arg' = text
       /\ out' = normalizeExact(text)
  /\ UNCHANGED sessionVars

NextNormalize == ApplyNormalizeExact

SpecNormalize == Init /\ [][NextNormalize]_vars

\* The punctuation the claim lists: . , ! ? ; : ( ) " '
ClaimedPunctuation == { ".", ",", "!", "?", ";", ":", "(", ")", "QUOT", "'" }

\* The text with the character c put in after its first i characters.
InsertAt(s, i, c) == SubSeq(s, 1, i) \o <<c>> \o SubSeq(s, i + 1, Len(s))

\* The text in capitals.
ToUpperCase(s) ==
  [i \in 1..Len(s) |-> CASE s[i] = "a" -> "A" [] s[i] = "b" -> "B"
                         [] s[i] = "h" -> "H" [] OTHER -> s[i]]

(***************************************************************************)
(* C25.  normalizeExact(text) is the text in lower case, without the       *)
(* characters . , ! ? ; : ( ) " ' and then trimmed.  So it holds no        *)
(* capital and none of those characters, has no outer white space, and is  *)
(* the same for texts that differ in case, in one of those characters put  *)
(* in anywhere, or in outer white space.                                   *)
(***************************************************************************)
C25_NormalizeExact ==
  (fn = "normalizeExact")
    => /\ out = trim(RemoveChars(toLowerCase(arg), ClaimedPunctuation))
       /\ \A i \in 1..Len(out) : out[i] \notin (ClaimedPunctuation \cup UpperLetters)
       /\ (out # <<>>) => (out[1] \notin WhiteSpace /\ out[Len(out)] \notin WhiteSpace)
       /\ normalizeExact(ToUpperCase(arg)) = out
       /\ normalizeExact(<<" ">> \o arg \o <<"LF">>) = out
       /\ \A i \in 0..Len(arg), p \in {".", "'", "!"} :
            normalizeExact(InsertAt(arg, i, p)) = out

\* "Hi, Ab!" normalizes to "hi ab", as "hi ab" does.
C25_Witness ==
  /\ fn = "normalizeExact"
  /\ arg = SampleHiAb
  /\ out = SampleHiAbPlain
  /\ normalizeExact(SampleHiAbPlain) = out

(***************************************************************************)
(* tokenize applied to all texts of up to MaxTextLen characters over       *)
(* letters, both apostrophes, white space and other characters, and to a   *)
(* sample sentence.                                                        *)
(***************************************************************************)
TokChars == { "a", "B", "'", "RSQ", " ", "LF", ".", "1" }
SampleHis == <<"H", "i", "'", "b", " ", "a", " ", " ", "c", "a", "b", ".">>
TokTexts == SeqsUpTo(TokChars, MaxTextLen) \cup { SampleHis }

ApplyTokenize ==
  /\ fn = "none"
  /\ \E text \in TokTexts :
       /\ fn' = "tokenize"
       /\ arg' = text
       /\ out' = tokenize(text)
  /\ UNCHANGED sessionVars

NextTokenize == ApplyTokenize

SpecTokenize == Init /\ [][NextTokenize]_vars

\* The characters a token may hold: lower-case ASCII letters, ' and U+2019.
ClaimedTokenChars == LowerLetters \cup { "'", "RSQ" }

\* The tokens of s read in one pass from left to right: white space ends the
\* token cur, a letter or apostrophe joins it in lower case, any other
\* character is skipped.
RECURSIVE ScanTokens(_, _)
ScanTokens(s, cur) ==
  LET done == IF cur = <<>> THEN <<>> ELSE <<cur>>
  IN  IF s = <<>> THEN done
      ELSE IF Head(s) \in WhiteSpace THEN done \o ScanTokens(Tail(s), <<>>)
      ELSE IF ToLowerChar(Head(s)) \in ClaimedTokenChars
           THEN ScanTokens(Tail(s), Append(cur, ToLowerChar(Head(s))))
           ELSE ScanTokens(Tail(s), cur)

(***************************************************************************)
(* C26.  tokenize(text) is the sequence, in source order, of the chunks    *)
(* between runs of white space, each in lower case and without any         *)
(* character other than ASCII letters and the two apostrophes, the empty   *)
(* ones left out.  No token is empty or holds another character.           *)
(***************************************************************************)
C26_Tokenize ==
  (fn = "tokenize")
    => /\ out = ScanTokens(arg, <<>>)
       /\ \A i \in 1..Len(out) :
            /\ out[i] # <<>>
            /\ \A j \in 1..Len(out[i]) : out[i][j] \in ClaimedTokenChars

\* "Hi'b a  cab." gives "hi'b", "a", "cab".
C26_Witness ==
  /\ fn = "tokenize"
  /\ arg = SampleHis
  /\ out = << <<"h", "i", "'", "b">>, <<"a">>, <<"c", "a", "b">> >>

(***************************************************************************)
(* C27.  While the transition is in progress its two frames do not change: *)
(* no step between its start and its completion changes animFrom, animTo   *)
(* or the session's frame; animFrom equals the session's frame throughout; *)
(* the timeline holds that animTo; and the completion step commits exactly *)
(* that animTo as the frame.                                               *)
(***************************************************************************)
C27_BufferedFramesFixed ==
  /\ [][(animating /\ animating') => UNCHANGED <<animFrom, animTo, frame>>]_vars
  /\ [](animating => animFrom = frame)
  /\ [](tl # Null => (animating /\ tl.to = animTo))
  /\ [][CompletionEvent => frame' = animTo]_vars

\* A submit attempted in the middle of the second transition.
C27_Witness ==
  /\ mounted /\ animating /\ tl # Null
  /\ lastEvent \in {"click", "key"}
  /\ frame.lastResult # Null
  /\ animFrom = frame /\ animTo # frame

(***************************************************************************)
(* C28.  No reachable state is a dead end: while the component is mounted  *)
(* and has a frame, either the session is READY, where a non-blank submit  *)
(* is accepted, or a cycle is under way, waiting for its grammar request   *)
(* or for its transition.                                                  *)
(***************************************************************************)
C28_NoDeadEnd ==
  (mounted /\ frame # Null) => (Ready \/ Len(pending) >= 1 \/ animating)

(***************************************************************************)
(* C29.  The answer of a cycle is the text of the input at the accepted    *)
(* submit: that text is evaluated, sent to the grammar check and, when the *)
(* request is settled, stored as the result's userAnswer, whatever the     *)
(* input holds by then.  Typing while the request is outstanding does not  *)
(* touch the request; the step that settles a request leaves the input as  *)
(* it is; the completion step empties it.                                  *)
(***************************************************************************)
C29_AnswerIsInputAtSubmit ==
  /\ [][(SubmitEvent /\ pending' # pending)
          => LET c == pending'[Len(pending')]
             IN  /\ c.userAnswer = userAnswer
                 /\ c.sentence = userAnswer
                 /\ c.evalText = evaluateAnswer(frame.current.eng, userAnswer)]_vars
  /\ [][(lastEvent' = "input") => pending' = pending]_vars
  /\ [][(~animating /\ animating')
          => (/\ animTo'.lastResult.userAnswer = pending[1].userAnswer
              /\ pending[1].sentence = pending[1].userAnswer
              /\ animTo'.lastResult.evalText = pending[1].evalText)]_vars
  /\ [][GrammarEvent => userAnswer' = userAnswer]_vars
  /\ [][CompletionEvent
          => (/\ userAnswer' = <<>>
              /\ frame'.lastResult.userAnswer = animTo.lastResult.userAnswer)]_vars

\* "hi" was submitted and the input edited to "a" before the request resolved:
\* the transition carries "hi".
C29_Witness ==
  /\ mounted /\ animating /\ tl # Null
  /\ userAnswer = <<"a">>
  /\ animTo.lastResult.userAnswer = <<"h", "i">>

\* The prompt and model answer a result stores, as a pair.
PairOf(res) == [eng |-> res.eng, jpn |-> res.jpn]

\* The question of the frame f, and the pair of its result if it has one, are
\* pairs of the corpus.
FrameFromCorpus(f) ==
  /\ f.current \in Range(corpus)
  /\ (f.lastResult # Null) => (PairOf(f.lastResult) \in Range(corpus))

(***************************************************************************)
(* C30.  The question of the session's frame is a pair of the loaded       *)
(* corpus, and so is the question of either frame of a transition and of   *)
(* the frame the timeline holds; the prompt and model answer of any stored *)
(* result are those of a corpus pair.                                      *)
(***************************************************************************)
C30_FramesFromCorpus ==
  /\ (frame # Null) => FrameFromCorpus(frame)
  /\ (animFrom # Null) => FrameFromCorpus(animFrom)
  /\ (animTo # Null) => FrameFromCorpus(animTo)
  /\ (tl # Null) => FrameFromCorpus(tl.to)

\* Two pairs: the second was answered, the first is shown, the second is next.
C30_Witness ==
  /\ Len(corpus) = 2 /\ corpus[1] # corpus[2]
  /\ animating /\ tl # Null
  /\ frame.lastResult # Null
  /\ PairOf(frame.lastResult) = corpus[2]
  /\ frame.current = corpus[1]
  /\ animTo.current = corpus[2]

(***************************************************************************)
(* C31.  The frame without a result is the one the load creates, and it    *)
(* lasts until the first transition completes: the result of the frame     *)
(* changes only on a completion step; that step leaves a result, the one   *)
(* of the pair that was the question of the frame just before; and a       *)
(* frame that has a result never loses it.                                 *)
(***************************************************************************)
C31_WelcomeFrameOnlyAtStart ==
  /\ [][(frame = Null /\ frame' # Null) => frame'.lastResult = Null]_vars
  /\ [][(frame # Null /\ frame'.lastResult # frame.lastResult) => CompletionEvent]_vars
  /\ [][CompletionEvent
          => (/\ frame'.lastResult # Null
              /\ PairOf(frame'.lastResult) = frame.current)]_vars
  /\ [][(frame # Null /\ frame.lastResult # Null) => frame'.lastResult # Null]_vars

\* A cycle has completed: the result is that of the first pair, answered with
\* "a b", and the question is the second pair.
C31_Witness ==
  /\ Len(corpus) = 2
  /\ lastEvent = "complete"
  /\ frame.lastResult # Null
  /\ PairOf(frame.lastResult) = corpus[1]
  /\ frame.current = corpus[2]
  /\ frame.lastResult.userAnswer = <<"a", " ", "b">>

(***************************************************************************)
(* The two scoring functions together: jaccardSimilarity on token          *)
(* sequences, evaluateAnswer on character texts and on sentences.          *)
(***************************************************************************)
NextScoring ==
  \/ ApplySimilarity
  \/ ApplyEvaluateAnswer
  \/ ApplyEvaluateSentences

SpecScoring == Init /\ [][NextScoring]_vars

(***************************************************************************)
(* C32.  Scoring is symmetric: the similarity of two token sequences, and  *)
(* the label of two texts, are the same with the arguments exchanged.      *)
(***************************************************************************)
C32_ScoringIsSymmetric ==
  /\ (fn = "jaccardSimilarity") => (out = jaccardSimilarity(arg[2], arg[1]))
  /\ (fn = "evaluateAnswer") => (out = evaluateAnswer(arg[2], arg[1]))

\* One token against two, one shared: PARTIAL in either order.
C32_Witness ==
  /\ fn = "evaluateAnswer"
  /\ Len(tokenize(arg[1])) = 1 /\ Len(tokenize(arg[2])) = 2
  /\ jaccardSimilarity(tokenize(arg[1]), tokenize(arg[2])) = <<2, 3>>
  /\ out = LabelPartial
  /\ evaluateAnswer(arg[2], arg[1]) = LabelPartial

====
